---- MODULE Spec2Model ----
(***************************************************************************)
(* The detection-and-alert pipeline of CompleteSurveillanceSystem          *)
(* (src/complete_surveillance_system_fixed.py): the capture loop           *)
(* video_loop, the single-worker executor that runs detect_threats, the    *)
(* box cache, handle_threat_detection with its weapon confirmation and     *)
(* per-category cooldown, the detections table of DatabaseManager, and the *)
(* beep and e-mail threads an alert starts.                                *)
(*                                                                         *)
(* Time is counted in tenths of a second: time.time() is the variable now. *)
(* One step of video_loop is one iteration of its while loop; the read of  *)
(* the camera is where the clock advances.  handle_threat_detection reads  *)
(* time.time() again (line 1205) within the same iteration and gets the    *)
(* same tenth.  Confidences are percentages (0.7 is 70).                   *)
(***************************************************************************)
EXTENDS Integers, Sequences, FiniteSets, TLC

----------------------------------------------------------------------------
(* Program constants *)

detection_interval == 4
alert_cooldown == 20
confirm_window == 20
confirm_count == 2
box_lifetime == 40
crowd_limit == 5
has_threats_conf == 70
suspicious_conf == 80
mobile_alert_cooldown == 100
crowd_medium == 10
crowd_critical == 15
mobile_emotion_conf == 70
buffer_size == 32
smoothing_window == 3
violence_threshold == 65
confidence_floor == 20

(* Bounds of the model: jobs submitted and clock horizon of each specification *)

MaxJobs == 3
MaxTime == 42
AlertJobs == 3
AlertTime == 21
StreamJobs == 7
StreamTime == 52
ScheduleJobs == 5
ScheduleTime == 44
MaxReads == 2
RestartJobs == 3
RulesJobs == 2
MobileTime == 202
MaxClips == 6

None == 0
NoTime == 0 - 1
NoFault == <<"none", "none">>

Kinds == {"weapons", "people", "faces"}
Categories == {"weapon", "crowd", "behavior"}
Suspicious == {"angry", "fear"}

----------------------------------------------------------------------------
(* Result bundles of detect_threats *)

Det(c) == [confidence |-> c]
Face(d, c) == [dominant |-> d, confidence |-> c]
People(n) == [i \in 1..n |-> Det(60)]

Bundle(w, p, f) == [weapons |-> w, people |-> p, faces |-> f]

EmptyBundle == Bundle(<<>>, <<>>, <<>>)
WeaponBundle == Bundle(<<Det(90)>>, <<>>, <<>>)
CrowdBundle == Bundle(<<>>, People(6), <<>>)
QuietBundle == Bundle(<<>>, People(5), <<>>)
AngryBundle == Bundle(<<>>, <<>>, <<Face("angry", 85)>>)
WeaponCrowdBundle == Bundle(<<Det(90)>>, People(6), <<>>)
CrowdAngryBundle == Bundle(<<>>, People(6), <<Face("angry", 85)>>)

Faults == {NoFault} \cup (Categories \X {"log_detection", "mark_beep_played"})
Outcomes == {"sent", "no_sender", "no_password", "auth_error", "login_error", "transport_error"}

----------------------------------------------------------------------------
VARIABLES
    now,                    \* time.time(), in tenths of a second
    is_monitoring,          \* self.is_monitoring
    video_thread,           \* "running" or "exited": the thread of video_loop
    frame_count,            \* frame_count of video_loop
    inference_future,       \* self.inference_future: None or the id of a job
    executor,               \* jobs handed to self.executor and not yet collected
    jobs_submitted,         \* number of jobs submitted so far (the next job id)
    persistent_detections,  \* self.persistent_detections
    detection_timestamps,   \* self.detection_timestamps
    display_results,        \* what the last iteration drew on its frame
    weapon_confirm,         \* self._weapon_confirm
    last_alert_time,        \* self.last_alert_time (NoTime: key absent)
    detections,             \* rows of the detections table, by id
    beep_threads,           \* beep threads started and not finished
    email_threads,          \* e-mail threads started and not finished
    smtp_sessions,          \* the e-mail threads that ran, each with its outcome
    log_text,               \* the kinds of message written by log_message
    cycles,                 \* number of job results collected so far
    calls,                  \* collaborator calls of the last collected cycle
    raised,                 \* the last collected cycle ended in the except of line 1063
    merged,                 \* every detection merged into the cache, with its time
    history,                \* what each collected cycle saw and did
    cap,                    \* self.cap: "none", "open", "closed" or "released"
    cap_access,             \* the last use of the camera handle, and by whom
    orphan,                 \* the loop thread self.video_thread no longer names
    exit_cause,             \* why the last loop thread to end left its loop
    evidence,               \* frames handed to e-mail threads still running
    mobile_gui,             \* MobileIPWebcamGUI: last_alert_time and its last check_threats
    violence_detector       \* ViolenceDetector: its buffers and its last detect

vars == <<now, is_monitoring, video_thread, frame_count, inference_future,
          executor, jobs_submitted, persistent_detections, detection_timestamps,
          display_results, weapon_confirm, last_alert_time, detections,
          beep_threads, email_threads, smtp_sessions, log_text, cycles,
          calls, raised, merged, history, cap, cap_access, orphan, exit_cause,
          evidence, mobile_gui, violence_detector>>

(* The variables of CompleteSurveillanceSystem *)
system_vars == <<now, is_monitoring, video_thread, frame_count, inference_future,
                 executor, jobs_submitted, persistent_detections,
                 detection_timestamps, display_results, weapon_confirm,
                 last_alert_time, detections, beep_threads, email_threads,
                 smtp_sessions, log_text, cycles, calls, raised, merged, history,
                 cap, cap_access, orphan, exit_cause, evidence>>

----------------------------------------------------------------------------
(* Helpers *)

Range(s) == {s[i] : i \in 1..Len(s)}

MaxOf(S) == CHOOSE x \in S : \A y \in S : y <= x

EmptyCache == [k \in Kinds |-> <<>>]

----------------------------------------------------------------------------
(* DatabaseManager: the detections table.  A row's id is its position. *)

log_detection(db, c, conf, t) ==
    Append(db, [detection_type |-> c, confidence |-> conf, timestamp |-> t,
                email_sent |-> FALSE, beep_played |-> FALSE])

mark_email_sent(db, id) == [db EXCEPT ![id].email_sent = TRUE]

mark_beep_played(db, id) == [db EXCEPT ![id].beep_played = TRUE]

----------------------------------------------------------------------------
(* has_threats *)

has_threats(results) ==
    \/ Len(results.weapons) > 0
    \/ Len(results.people) > crowd_limit
    \/ \E i \in 1..Len(results.faces) :
          /\ results.faces[i].dominant \in Suspicious
          /\ results.faces[i].confidence > has_threats_conf

----------------------------------------------------------------------------
(* handle_threat_detection.  Its working state is the record h:            *)
(*   wc, lat, db, beeps, mails, log  the fields of self it reads and writes *)
(*   calls      the collaborator calls it has made, in order; "raise" marks *)
(*              the call before it as the one that raised; the entry       *)
(*              "last_alert_time" is the assignment to last_alert_time[c]  *)
(*   raised     an exception is propagating out of it                      *)
(*   count      the confirmation count right after line 1214               *)
(*   signals    the categories whose threshold test passed                 *)
(*   dispatched the categories whose alert ran to the end of its block     *)
(* fault names the database call that raises in this run, if it is made.   *)

CooldownIgnored(lat, c, t) == TRUE

CooldownOverInclusive(lat, c, t) == lat[c] = NoTime \/ t - lat[c] >= alert_cooldown

CooldownOver(lat, c, t) == lat[c] = NoTime \/ t - lat[c] > alert_cooldown

WindowNeverExpires(wc, t) == FALSE

WindowExpiredInclusive(wc, t) == t - wc.last_time >= confirm_window

WindowExpired(wc, t) == t - wc.last_time > confirm_window

ConfirmedAtOnce(count) == count >= 1

ConfirmedFromZero(count) == count >= 0

Confirmed(count) == count >= confirm_count

play_beep_sound(h, c, id) ==
    [h EXCEPT !.calls = Append(@, <<"play_beep_sound", c>>),
              !.beeps = @ \cup {[id |-> id, threat_type |-> c]}]

send_email_alert(h, c, id, enabled) ==
    IF ~enabled
    THEN [h EXCEPT !.calls = Append(@, <<"send_email_alert", c>>),
                   !.log = @ \cup {"email_not_configured"}]
    ELSE [h EXCEPT !.calls = Append(@, <<"send_email_alert", c>>),
                   !.mails = @ \cup {[id |-> id, alert_type |-> c]}]

SetLastAlert(h, c, t) ==
    [h EXCEPT !.lat[c] = t,
              !.calls = Append(@, <<"last_alert_time", c>>),
              !.dispatched = @ \cup {c}]

Alert(h, c, conf, t, fault, enabled) ==
    LET id == Len(h.db) + 1
        h1 == [h EXCEPT !.calls = Append(@, <<"log_detection", c>>)]
    IN  IF fault = <<c, "log_detection">>
        THEN [h1 EXCEPT !.raised = TRUE, !.calls = Append(@, <<"raise", c>>)]
        ELSE LET h2 == play_beep_sound([h1 EXCEPT !.db = log_detection(@, c, conf, t)], c, id)
                 h3 == [h2 EXCEPT !.calls = Append(@, <<"mark_beep_played", c>>)]
             IN  IF fault = <<c, "mark_beep_played">>
                 THEN [h3 EXCEPT !.raised = TRUE, !.calls = Append(@, <<"raise", c>>)]
                 ELSE SetLastAlert(
                          send_email_alert([h3 EXCEPT !.db = mark_beep_played(@, id)],
                                           c, id, enabled),
                          c, t)

weapon_block(h, results, t, fault, enabled) ==
    IF Len(results.weapons) = 0 THEN h
    ELSE LET base == IF WindowExpired(h.wc, t) THEN 0 ELSE h.wc.count
             h1 == [h EXCEPT !.wc = [count |-> base + 1, last_time |-> t],
                             !.count = base + 1]
         IN  IF ~Confirmed(h1.wc.count) THEN h1
             ELSE LET h2 == [h1 EXCEPT !.signals = @ \cup {"weapon"}]
                      top == MaxOf({results.weapons[i].confidence :
                                        i \in 1..Len(results.weapons)})
                  IN  IF ~CooldownOver(h2.lat, "weapon", t) THEN h2
                      ELSE LET h3 == Alert(h2, "weapon", top, t, fault, enabled)
                           IN  IF h3.raised THEN h3
                               ELSE [h3 EXCEPT !.wc.count = 0]

crowd_block_inclusive(h, results, t, fault, enabled) ==
    IF h.raised \/ ~(Len(results.people) >= crowd_limit) THEN h
    ELSE LET h1 == [h EXCEPT !.signals = @ \cup {"crowd"}]
         IN  IF ~CooldownOver(h1.lat, "crowd", t) THEN h1
             ELSE Alert(h1, "crowd", 90, t, fault, enabled)

crowd_block(h, results, t, fault, enabled) ==
    IF h.raised \/ ~(Len(results.people) > crowd_limit) THEN h
    ELSE LET h1 == [h EXCEPT !.signals = @ \cup {"crowd"}]
         IN  IF ~CooldownOver(h1.lat, "crowd", t) THEN h1
             ELSE Alert(h1, "crowd", 90, t, fault, enabled)

suspicious_faces_inclusive(results) ==
    SelectSeq(results.faces,
              LAMBDA face : face.dominant \in Suspicious /\ face.confidence >= suspicious_conf)

suspicious_faces(results) ==
    SelectSeq(results.faces,
              LAMBDA face : face.dominant \in Suspicious /\ face.confidence > suspicious_conf)

behavior_block(h, results, t, fault, enabled) ==
    IF h.raised \/ suspicious_faces(results) = <<>> THEN h
    ELSE LET h1 == [h EXCEPT !.signals = @ \cup {"behavior"}]
         IN  IF ~CooldownOver(h1.lat, "behavior", t) THEN h1
             ELSE Alert(h1, "behavior", suspicious_faces(results)[1].confidence,
                        t, fault, enabled)

handle_threat_detection(h, results, t, fault, enabled) ==
    behavior_block(
        crowd_block(
            weapon_block(h, results, t, fault, enabled),
            results, t, fault, enabled),
        results, t, fault, enabled)

----------------------------------------------------------------------------
(* The executor and the cache of video_loop *)

Job(id) == CHOOSE j \in executor : j.id = id

FutureDone == inference_future # None /\ Job(inference_future).done

SubmitNextTick(future) == inference_future = None

SubmitAlways(future) == TRUE

SubmitOverPending(future) == future \in Nat

SubmitAllowed(future) == future = None

FreshForever(t, timestamp) == TRUE

FreshInclusive(t, timestamp) == t - timestamp <= box_lifetime

Fresh(t, timestamp) == t - timestamp < box_lifetime

valid_indices(timestamps, t) ==
    SelectSeq([i \in 1..Len(timestamps) |-> i], LAMBDA i : Fresh(t, timestamps[i]))

KeepFirst(s, idx) == [j \in 1..Len(idx) |-> s[j]]

Keep(s, idx) == [j \in 1..Len(idx) |-> s[idx[j]]]

IsEmpty(results) == \A k \in Kinds : Len(results[k]) = 0

Stamp(s, t) == [i \in 1..Len(s) |-> t]

Tag(s, t) == [i \in 1..Len(s) |-> [detection |-> s[i], at |-> t]]

(* The working state handle_threat_detection starts from *)
H0 ==
    [wc |-> weapon_confirm, lat |-> last_alert_time, db |-> detections,
     beeps |-> beep_threads, mails |-> email_threads, log |-> log_text,
     calls |-> <<>>, raised |-> FALSE, count |-> 0, signals |-> {},
     dispatched |-> {}]

(* Lines 1048-1066 without the merge: the threat evaluation of one result *)
EvaluateUnlogged(results, t, fault, enabled) ==
    IF IsEmpty(results) \/ ~has_threats(results) THEN H0
    ELSE handle_threat_detection(H0, results, t, fault, enabled)

Evaluate(results, t, fault, enabled) ==
    IF IsEmpty(results) \/ ~has_threats(results) THEN H0
    ELSE LET h == handle_threat_detection(H0, results, t, fault, enabled)
         IN  IF h.raised THEN [h EXCEPT !.log = @ \cup {"inference_result_error"}]
             ELSE h

Observation(results, t, h) ==
    [t |-> t, results |-> results, count |-> h.count, signals |-> h.signals,
     dispatched |-> h.dispatched, raised |-> h.raised, job |-> inference_future]

----------------------------------------------------------------------------
(* GUI thread.  toggle_monitoring (lines 959-964) calls start_monitoring    *)
(* only when is_monitoring is false and stop_monitoring only when it is     *)
(* true; a camera source has been selected.                                 *)

Access(op, by) ==
    [op |-> op, by |-> by,
     live |-> video_thread = "running" \/ orphan.status = "running"]

NoThread == [status |-> "none", frame_count |-> 0, reads |-> 0]

(* isOpened is the answer of self.cap.isOpened() at line 979.  The thread   *)
(* object self.video_thread named before is dropped by line 993, and its    *)
(* loop goes on if it is running: at most two loop threads are followed,    *)
(* and a thread created before is let reach its loop first.                 *)
start_monitoring(isOpened) ==
    /\ ~is_monitoring
    /\ video_thread # "started"
    /\ video_thread = "running" => orphan.status # "running"
    /\ cap' = IF isOpened THEN "open" ELSE "closed"
    /\ cap_access' = Access("open", "gui")
    /\ IF isOpened
       THEN /\ is_monitoring' = TRUE
            /\ video_thread' = "started"
            /\ orphan' = IF video_thread = "running"
                         THEN [status |-> "running", frame_count |-> frame_count,
                               reads |-> 0]
                         ELSE orphan
       ELSE UNCHANGED <<is_monitoring, video_thread, orphan>>
    /\ UNCHANGED <<now, frame_count, inference_future, executor, jobs_submitted,
                   persistent_detections, detection_timestamps, display_results,
                   weapon_confirm, last_alert_time, detections, beep_threads,
                   email_threads, smtp_sessions, log_text, cycles, calls, raised,
                   merged, history, exit_cause, evidence>>
    /\ UNCHANGED <<mobile_gui, violence_detector>>

(* The jobs not collected yet are marked: they were outstanding at a stop *)
stop_monitoring ==
    /\ is_monitoring
    /\ is_monitoring' = FALSE
    /\ cap' = IF cap = "none" THEN cap ELSE "released"
    /\ cap_access' = IF cap = "none" THEN cap_access ELSE Access("release", "gui")
    /\ executor' = {[j EXCEPT !.stale = TRUE] : j \in executor}
    /\ UNCHANGED <<now, video_thread, frame_count, inference_future,
                   jobs_submitted, persistent_detections, detection_timestamps,
                   display_results, weapon_confirm, last_alert_time, detections,
                   beep_threads, email_threads, smtp_sessions, log_text, cycles,
                   calls, raised, merged, history, orphan, exit_cause, evidence>>
    /\ UNCHANGED <<mobile_gui, violence_detector>>

save_frame(ret) ==
    /\ cap = "open"
    /\ cap_access' = Access("read", "gui")
    /\ log_text' = IF ret THEN log_text \cup {"frame_saved"} ELSE log_text
    /\ UNCHANGED <<now, is_monitoring, video_thread, frame_count, inference_future,
                   executor, jobs_submitted, persistent_detections,
                   detection_timestamps, display_results, weapon_confirm,
                   last_alert_time, detections, beep_threads, email_threads,
                   smtp_sessions, cycles, calls, raised, merged, history, cap,
                   orphan, exit_cause, evidence>>
    /\ UNCHANGED <<mobile_gui, violence_detector>>

----------------------------------------------------------------------------
(* Capture thread *)

video_loop_begin ==
    /\ video_thread = "started"
    /\ video_thread' = "running"
    /\ frame_count' = 0
    /\ persistent_detections' = EmptyCache
    /\ detection_timestamps' = EmptyCache
    /\ merged' = EmptyCache
    /\ UNCHANGED <<now, is_monitoring, inference_future, executor, jobs_submitted,
                   display_results, weapon_confirm, last_alert_time, detections,
                   beep_threads, email_threads, smtp_sessions, log_text, cycles, calls, raised,
                   history, cap, cap_access, orphan, exit_cause, evidence>>
    /\ UNCHANGED <<mobile_gui, violence_detector>>

video_loop_exit ==
    /\ video_thread = "running"
    /\ ~is_monitoring
    /\ video_thread' = "exited"
    /\ exit_cause' = "stop"
    /\ UNCHANGED <<now, is_monitoring, frame_count, inference_future, executor,
                   jobs_submitted, persistent_detections, detection_timestamps,
                   display_results, weapon_confirm, last_alert_time, detections,
                   beep_threads, email_threads, smtp_sessions, log_text, cycles, calls, raised,
                   merged, history, cap, cap_access, orphan, evidence>>
    /\ UNCHANGED <<mobile_gui, violence_detector>>

(* Lines 1040-1103 of one iteration whose read gave a frame, run by a loop  *)
(* thread whose frame_count is fc.  drawn: draw_detections returned.  The   *)
(* frame handed to the e-mail threads of this iteration (line 1060) is the  *)
(* frame line 1100 draws on.                                                *)
Iteration(fc, current_time, drawn, fault, enabled, quota) ==
    LET tick == fc % detection_interval = 0
        collect == tick /\ FutureDone
        new_results == IF collect THEN Job(inference_future).result
                       ELSE EmptyBundle
        h == IF collect THEN Evaluate(new_results, current_time, fault, enabled)
             ELSE H0
        future1 == IF collect THEN None ELSE inference_future
        executor1 == IF collect THEN executor \ {Job(inference_future)}
                     ELSE executor
        submit == tick /\ SubmitAllowed(future1)
        id == jobs_submitted + 1
        pd == [k \in Kinds |-> persistent_detections[k] \o new_results[k]]
        ts == [k \in Kinds |->
                  detection_timestamps[k] \o Stamp(new_results[k], current_time)]
        idx == [k \in Kinds |-> valid_indices(ts[k], current_time)]
    IN  /\ submit => jobs_submitted < quota
        /\ inference_future' = IF submit THEN id ELSE future1
        /\ executor' = IF submit
                       THEN executor1 \cup
                            {[id |-> id, done |-> FALSE, result |-> EmptyBundle,
                              stale |-> FALSE, error |-> FALSE]}
                       ELSE executor1
        /\ jobs_submitted' = IF submit THEN id ELSE jobs_submitted
        /\ persistent_detections' = [k \in Kinds |-> Keep(pd[k], idx[k])]
        /\ detection_timestamps' = [k \in Kinds |-> Keep(ts[k], idx[k])]
        /\ display_results' = persistent_detections'
        /\ merged' = [k \in Kinds |->
                         merged[k] \o Tag(new_results[k], current_time)]
        /\ weapon_confirm' = h.wc
        /\ last_alert_time' = h.lat
        /\ detections' = h.db
        /\ beep_threads' = h.beeps
        /\ email_threads' = h.mails
        /\ evidence' = evidence \cup
               {[id |-> m.id,
                 frame |-> IF drawn /\ ~IsEmpty(display_results')
                           THEN "drawn_on" ELSE "as_handed"] :
                    m \in h.mails \ email_threads}
        /\ smtp_sessions' = smtp_sessions
        /\ log_text' = IF drawn THEN h.log ELSE h.log \cup {"video_error"}
        /\ cycles' = IF collect THEN cycles + 1 ELSE cycles
        /\ calls' = IF collect THEN h.calls ELSE calls
        /\ raised' = IF collect THEN h.raised ELSE raised
        /\ history' = IF collect
                      THEN Append(history, Observation(new_results, current_time, h))
                      ELSE history

(* One iteration of the while loop.  dt is the time the read takes, ret its *)
(* first result on an open handle; quota and horizon bound the jobs         *)
(* submitted and the clock.                                                 *)
video_loop(dt, ret, drawn, fault, enabled, quota, horizon) ==
    /\ video_thread = "running"
    /\ is_monitoring
    /\ now + dt <= horizon
    /\ now' = now + dt
    /\ cap_access' = Access("read", "capture")
    /\ IF ~(ret /\ cap = "open")
       THEN /\ video_thread' = "exited"
            /\ exit_cause' = "read_failure"
            /\ UNCHANGED <<frame_count, inference_future, executor,
                           jobs_submitted, persistent_detections,
                           detection_timestamps, display_results, weapon_confirm,
                           last_alert_time, detections, beep_threads,
                           email_threads, smtp_sessions, log_text, cycles, calls, raised,
                           merged, history, evidence>>
       ELSE /\ Iteration(frame_count, now + dt, drawn, fault, enabled, quota)
            /\ frame_count' = IF drawn THEN (frame_count + 1) % detection_interval
                              ELSE frame_count
            /\ video_thread' = IF drawn THEN video_thread ELSE "exited"
            /\ exit_cause' = IF drawn THEN exit_cause ELSE "exception"
    /\ UNCHANGED <<is_monitoring, cap, orphan>>
    /\ UNCHANGED <<mobile_gui, violence_detector>>

(* The same iteration run by the loop thread that start_monitoring left     *)
(* behind; reads counts its frame reads since then, up to MaxReads.         *)
orphan_loop(dt, ret, drawn, fault, enabled, quota, horizon) ==
    /\ orphan.status = "running"
    /\ is_monitoring
    /\ now + dt <= horizon
    /\ now' = now + dt
    /\ cap_access' = Access("read", "capture")
    /\ IF ~(ret /\ cap = "open")
       THEN /\ orphan' = [orphan EXCEPT !.status = "exited"]
            /\ exit_cause' = "read_failure"
            /\ UNCHANGED <<inference_future, executor,
                           jobs_submitted, persistent_detections,
                           detection_timestamps, display_results, weapon_confirm,
                           last_alert_time, detections, beep_threads,
                           email_threads, smtp_sessions, log_text, cycles, calls, raised,
                           merged, history, evidence>>
       ELSE /\ Iteration(orphan.frame_count, now + dt, drawn, fault, enabled, quota)
            /\ orphan' = [status |-> IF drawn THEN "running" ELSE "exited",
                          frame_count |-> IF drawn
                                          THEN (orphan.frame_count + 1) % detection_interval
                                          ELSE orphan.frame_count,
                          reads |-> IF orphan.reads < MaxReads THEN orphan.reads + 1
                                    ELSE orphan.reads]
            /\ exit_cause' = IF drawn THEN exit_cause ELSE "exception"
    /\ UNCHANGED <<is_monitoring, video_thread, frame_count, cap>>
    /\ UNCHANGED <<mobile_gui, violence_detector>>

orphan_exit ==
    /\ orphan.status = "running"
    /\ ~is_monitoring
    /\ orphan' = [orphan EXCEPT !.status = "exited"]
    /\ exit_cause' = "stop"
    /\ UNCHANGED <<now, is_monitoring, video_thread, frame_count, inference_future,
                   executor, jobs_submitted, persistent_detections,
                   detection_timestamps, display_results, weapon_confirm,
                   last_alert_time, detections, beep_threads, email_threads,
                   smtp_sessions, log_text, cycles, calls, raised, merged, history,
                   cap, cap_access, evidence>>
    /\ UNCHANGED <<mobile_gui, violence_detector>>

----------------------------------------------------------------------------
(* Executor worker: the oldest unfinished job returns from detect_threats.  *)
(* error: a model raised inside the try of lines 1121-1192; the exception   *)
(* is logged there and the results gathered so far are returned.            *)

detect_threats(results, error) ==
    /\ \E j \in executor :
          /\ ~j.done
          /\ \A o \in executor : ~o.done => j.id <= o.id
          /\ executor' = (executor \ {j}) \cup
                 {[j EXCEPT !.done = TRUE, !.result = results, !.error = error]}
    /\ log_text' = IF error THEN log_text \cup {"detection_error"} ELSE log_text
    /\ UNCHANGED <<now, is_monitoring, video_thread, frame_count, inference_future,
                   jobs_submitted, persistent_detections, detection_timestamps,
                   display_results, weapon_confirm, last_alert_time, detections,
                   beep_threads, email_threads, smtp_sessions, cycles, calls, raised,
                   merged, history, cap, cap_access, orphan, exit_cause, evidence>>
    /\ UNCHANGED <<mobile_gui, violence_detector>>

----------------------------------------------------------------------------
(* Alert threads *)

play_beeps ==
    /\ \E b \in beep_threads :
          /\ beep_threads' = beep_threads \ {b}
          /\ log_text' = log_text \cup {"beep_alert_played"}
    /\ UNCHANGED <<now, is_monitoring, video_thread, frame_count, inference_future,
                   executor, jobs_submitted, persistent_detections,
                   detection_timestamps, display_results, weapon_confirm,
                   last_alert_time, detections, email_threads, smtp_sessions, cycles, calls,
                   raised, merged, history, cap, cap_access, orphan, exit_cause,
                   evidence>>
    /\ UNCHANGED <<mobile_gui, violence_detector>>

EmailLogUnclassified(outcome) ==
    IF outcome = "sent" THEN {"email_sent_successfully"} ELSE {"email_sending_failed"}

EmailLog(outcome) ==
    CASE outcome = "sent"            -> {"email_sent_successfully"}
      [] outcome = "no_sender"       -> {"no_sender_configured"}
      [] outcome = "no_password"     -> {"app_password_not_configured"}
      [] outcome = "auth_error"      -> {"smtp_authentication_failed"}
      [] outcome = "login_error"     -> {"smtp_login_error"}
      [] outcome = "transport_error" -> {"email_sending_failed"}

EmailMarks(outcome) == outcome # "transport_error"

send_email(outcome) ==
    /\ \E m \in email_threads :
          /\ email_threads' = email_threads \ {m}
          /\ detections' = IF EmailMarks(outcome) THEN mark_email_sent(detections, m.id)
                           ELSE detections
          /\ smtp_sessions' = smtp_sessions \cup {[id |-> m.id, outcome |-> outcome]}
          /\ log_text' = log_text \cup EmailLog(outcome)
          /\ evidence' = {e \in evidence : e.id # m.id}
    /\ UNCHANGED <<now, is_monitoring, video_thread, frame_count, inference_future,
                   executor, jobs_submitted, persistent_detections,
                   detection_timestamps, display_results, weapon_confirm,
                   last_alert_time, beep_threads, cycles, calls, raised, merged,
                   history, cap, cap_access, orphan, exit_cause>>
    /\ UNCHANGED <<mobile_gui, violence_detector>>

----------------------------------------------------------------------------
(* MobileIPWebcamGUI.check_threats (src/mobile_ip_webcam_gui.py).  Its      *)
(* working state is the record m: lat is self.last_alert_time, updated the  *)
(* keys written in this call, threat_detected, threat_type and              *)
(* sound_pattern its locals (alert_message is assigned where threat_type    *)
(* is), logged, sounds and emails the threat types of the message logged,   *)
(* of the call of play_threat_sound and of the call of send_threat_email.   *)
(* A face's emotion is its field dominant.                                  *)

MobileCategories == {"weapon", "crowd", "emotion"}
MobileSuspicious == {"angry", "fear", "disgust"}

MobileCooldownOver(lat, c, t) == lat[c] = NoTime \/ t - lat[c] > mobile_alert_cooldown

M0 ==
    [lat |-> mobile_gui.last_alert_time, updated |-> {}, threat_detected |-> FALSE,
     threat_type |-> "", sound_pattern |-> "", logged |-> {}, sounds |-> {},
     emails |-> {}]

check_weapons(m, results, t) ==
    IF Len(results.weapons) > 0 /\ MobileCooldownOver(m.lat, "weapon", t)
    THEN [m EXCEPT !.threat_detected = TRUE, !.threat_type = "WEAPON",
                   !.sound_pattern = "weapon", !.lat["weapon"] = t,
                   !.updated = @ \cup {"weapon"}]
    ELSE m

check_crowd(m, results, t) ==
    LET people_count == Len(results.people)
    IN  IF people_count > crowd_medium /\ MobileCooldownOver(m.lat, "crowd", t)
        THEN LET m1 == IF people_count > crowd_critical
                       THEN [m EXCEPT !.threat_detected = TRUE,
                                      !.threat_type = "OVERCROWDING",
                                      !.sound_pattern = "crowd"]
                       ELSE [m EXCEPT !.threat_detected = TRUE,
                                      !.threat_type = "CROWD_MEDIUM",
                                      !.sound_pattern = "crowd_medium"]
             IN  [m1 EXCEPT !.lat["crowd"] = t, !.updated = @ \cup {"crowd"}]
        ELSE m

mobile_suspicious_faces(results) ==
    SelectSeq(results.faces,
              LAMBDA face : face.dominant \in MobileSuspicious
                               /\ face.confidence > mobile_emotion_conf)

check_emotions(m, results, t) ==
    IF mobile_suspicious_faces(results) # <<>> /\ MobileCooldownOver(m.lat, "emotion", t)
    THEN [m EXCEPT !.threat_detected = TRUE, !.threat_type = "SUSPICIOUS_BEHAVIOR",
                   !.sound_pattern = "behavior", !.lat["emotion"] = t,
                   !.updated = @ \cup {"emotion"}]
    ELSE m

(* Lines 546-569; sound: SOUND_AVAILABLE *)
process_alerts(m, enabled, sound) ==
    IF ~m.threat_detected THEN m
    ELSE [m EXCEPT !.logged = {m.threat_type},
                   !.emails = IF enabled THEN {m.threat_type} ELSE {},
                   !.sounds = IF sound THEN {<<m.threat_type, m.sound_pattern>>} ELSE {}]

check_threats(results, dt, enabled, sound, horizon) ==
    /\ now + dt <= horizon
    /\ now' = now + dt
    /\ LET m == process_alerts(
                    check_emotions(
                        check_crowd(check_weapons(M0, results, now'), results, now'),
                        results, now'),
                    enabled, sound)
       IN  mobile_gui' = [last_alert_time |-> m.lat, results |-> results,
                          updated |-> m.updated, logged |-> m.logged,
                          sounds |-> m.sounds, emails |-> m.emails,
                          enabled |-> enabled, sound |-> sound]
    /\ UNCHANGED <<is_monitoring, video_thread, frame_count, inference_future,
                   executor, jobs_submitted, persistent_detections,
                   detection_timestamps, display_results, weapon_confirm,
                   last_alert_time, detections, beep_threads, email_threads,
                   smtp_sessions, log_text, cycles, calls, raised, merged, history,
                   cap, cap_access, orphan, exit_cause, evidence, violence_detector>>

----------------------------------------------------------------------------
(* ViolenceDetector (src/AI_models/violence/adapter.py).  frame_buffer is   *)
(* the length of the deque of that name; label and prob are the top class   *)
(* of the model on the clip in the buffer; predictions is every clip-level  *)
(* is_violence computed so far, in order.                                   *)

ViolenceLabels == {"punching person (boxing)", "dancing ballet"}

violence_keywords(label) == label = "punching person (boxing)"

is_violence(label, prob) ==
    prob >= violence_threshold /\ prob >= confidence_floor /\ violence_keywords(label)

DequeAppend(d, x, maxlen) == IF Len(d) < maxlen THEN Append(d, x) ELSE Append(Tail(d), x)

SmoothedAny(violence_history) ==
    \E i \in 1..Len(violence_history) : violence_history[i]

is_violence_smooth(violence_history) ==
    /\ Len(violence_history) = smoothing_window
    /\ \A i \in 1..Len(violence_history) : violence_history[i]

detect(label, prob, clips) ==
    LET d == violence_detector
        buffered == IF d.frame_buffer < buffer_size THEN d.frame_buffer + 1
                    ELSE buffer_size
    IN  /\ buffered = buffer_size => Len(d.predictions) < clips
        /\ violence_detector' =
              IF buffered = buffer_size
              THEN LET violent == is_violence(label, prob)
                       hist == DequeAppend(d.violence_history, violent, smoothing_window)
                   IN  [frame_buffer |-> buffered,
                        violence_history |-> hist,
                        last_prediction |-> [label |-> label, prob |-> prob,
                                             is_violence |-> violent],
                        result |-> [label |-> label, prob |-> prob,
                                    is_violence |-> is_violence_smooth(hist),
                                    buffer_ready |-> TRUE],
                        predictions |-> Append(d.predictions, violent)]
              ELSE [d EXCEPT !.frame_buffer = buffered,
                             !.result = [label |-> d.last_prediction.label,
                                         prob |-> d.last_prediction.prob,
                                         is_violence |-> FALSE,
                                         buffer_ready |-> FALSE]]
        /\ UNCHANGED <<system_vars, mobile_gui>>

----------------------------------------------------------------------------
Init ==
    /\ now = 0
    /\ is_monitoring = FALSE
    /\ video_thread = "none"
    /\ frame_count = 0
    /\ inference_future = None
    /\ executor = {}
    /\ jobs_submitted = 0
    /\ persistent_detections = EmptyCache
    /\ detection_timestamps = EmptyCache
    /\ display_results = EmptyCache
    /\ weapon_confirm = [count |-> 0, last_time |-> 0]
    /\ last_alert_time = [c \in Categories |-> NoTime]
    /\ detections = <<>>
    /\ beep_threads = {}
    /\ email_threads = {}
    /\ smtp_sessions = {}
    /\ log_text = {}
    /\ cycles = 0
    /\ calls = <<>>
    /\ raised = FALSE
    /\ merged = EmptyCache
    /\ history = <<>>
    /\ cap = "none"
    /\ cap_access = [op |-> "none", by |-> "none", live |-> FALSE]
    /\ orphan = NoThread
    /\ exit_cause = "none"
    /\ evidence = {}
    /\ mobile_gui = [last_alert_time |-> [c \in MobileCategories |-> NoTime],
                     results |-> EmptyBundle, updated |-> {}, logged |-> {},
                     sounds |-> {}, emails |-> {}, enabled |-> FALSE, sound |-> FALSE]
    /\ violence_detector =
          [frame_buffer |-> 0, violence_history |-> <<>>,
           last_prediction |-> [label |-> "", prob |-> 0, is_violence |-> FALSE],
           result |-> [label |-> "", prob |-> 0, is_violence |-> FALSE,
                       buffer_ready |-> FALSE],
           predictions |-> <<>>]

(* The first start of monitoring, with a camera that opens *)
FirstStart == video_thread = "none"

(* The scheduler and the cache: any pace of the camera, quiet and armed scenes *)

Bundles == {EmptyBundle, QuietBundle, WeaponBundle}
Deltas == {0, 20, 21}
WeaponFaults == {NoFault, <<"weapon", "log_detection">>}

Next ==
    \/ FirstStart /\ start_monitoring(TRUE)
    \/ stop_monitoring
    \/ video_loop_begin
    \/ video_loop_exit
    \/ \E dt \in Deltas, ret \in BOOLEAN, drawn \in BOOLEAN, fault \in WeaponFaults :
          video_loop(dt, ret, drawn, fault, TRUE, MaxJobs, MaxTime)
    \/ \E results \in Bundles, error \in BOOLEAN : detect_threats(results, error)
    \/ play_beeps
    \/ send_email("sent")

Spec == Init /\ [][Next]_vars

(* The alert dispatch with its failures: the database call that raises, the *)
(* e-mail configuration and the outcome of the SMTP session are all free.   *)
(* The alert threads, which write nothing the loop reads, are run before    *)
(* the next frame is read.                                                  *)

Quiescent == beep_threads = {} /\ email_threads = {}

AlertBundles == {WeaponCrowdBundle}
AlertDeltas == {0, 21}
AlertFaults == {NoFault} \cup ({"weapon", "crowd"} \X {"log_detection", "mark_beep_played"})

NextAlerts ==
    \/ FirstStart /\ start_monitoring(TRUE)
    \/ video_loop_begin
    \/ \E dt \in AlertDeltas, fault \in AlertFaults, enabled \in BOOLEAN :
          Quiescent /\ video_loop(dt, TRUE, TRUE, fault, enabled, AlertJobs, AlertTime)
    \/ \E results \in AlertBundles : detect_threats(results, FALSE)
    \/ play_beeps
    \/ \E outcome \in Outcomes : send_email(outcome)

SpecAlerts == Init /\ [][NextAlerts]_vars

(* Timed schedules of inference cycles: the clock advances on the read of a *)
(* detection tick that has a job to collect, and the detector answers       *)
(* before that tick.                                                        *)

TickDeltas(S) == IF frame_count = 0 /\ inference_future # None THEN S ELSE {0}

Answered == (frame_count = 0 /\ inference_future # None) => FutureDone

LogFaults == {NoFault} \cup (Categories \X {"log_detection"})

ScheduleBundles == {WeaponBundle, CrowdBundle, AngryBundle}
ScheduleDeltas == {10, 11}

ScheduleFaults == LogFaults \cup {<<"weapon", "mark_beep_played">>}

NextSchedule ==
    \/ FirstStart /\ start_monitoring(TRUE)
    \/ video_loop_begin
    \/ \E dt \in TickDeltas(ScheduleDeltas), fault \in ScheduleFaults :
          /\ Quiescent
          /\ Answered
          /\ video_loop(dt, TRUE, TRUE, fault, TRUE, ScheduleJobs, ScheduleTime)
    \/ \E results \in ScheduleBundles : detect_threats(results, FALSE)
    \/ play_beeps
    \/ send_email("sent")

SpecSchedule == Init /\ [][NextSchedule]_vars

(* A detector that reports one weapon on every cycle; cycles 0.2 s, 0.5 s *)
(* or 4.5 s apart                                                         *)

StreamDeltas == {2, 5, 45}

NextStream ==
    \/ FirstStart /\ start_monitoring(TRUE)
    \/ video_loop_begin
    \/ \E dt \in TickDeltas(StreamDeltas), fault \in LogFaults :
          /\ Quiescent
          /\ Answered
          /\ video_loop(dt, TRUE, TRUE, fault, TRUE, StreamJobs, StreamTime)
    \/ \E error \in BOOLEAN : detect_threats(WeaponBundle, error)
    \/ play_beeps
    \/ send_email("sent")

SpecStream == Init /\ [][NextStream]_vars

(* Stopping and starting again: the GUI thread toggles monitoring and saves *)
(* frames at any moment, the camera may fail to open or to deliver, and the *)
(* loop thread running at a start goes on beside the new one.               *)

NextRestart ==
    \/ \E isOpened \in BOOLEAN : start_monitoring(isOpened)
    \/ stop_monitoring
    \/ \E ret \in BOOLEAN : save_frame(ret)
    \/ video_loop_begin
    \/ video_loop_exit
    \/ orphan_exit
    \/ \E ret \in BOOLEAN :
          video_loop(0, ret, TRUE, NoFault, TRUE, RestartJobs, MaxTime)
    \/ \E ret \in BOOLEAN :
          orphan_loop(0, ret, TRUE, NoFault, TRUE, RestartJobs, MaxTime)
    \/ detect_threats(QuietBundle, FALSE)

SpecRestart == Init /\ [][NextRestart]_vars

(* The threshold tests: scenes without weapons, with five or six people and *)
(* at most one face whose dominant emotion has a confidence at, just above  *)
(* or between the two confidence limits                                     *)

RuleConfidences == {70, 71, 80, 81}
RuleFaces ==
    {<<>>, <<Face("happy", 81)>>, <<Face("fear", 80)>>, <<Face("fear", 81)>>}
        \cup {<<Face("angry", c)>> : c \in RuleConfidences}
RuleBundles == {Bundle(<<>>, People(n), f) : n \in {5, 6}, f \in RuleFaces}

NextRules ==
    \/ FirstStart /\ start_monitoring(TRUE)
    \/ video_loop_begin
    \/ Quiescent /\ video_loop(0, TRUE, TRUE, NoFault, TRUE, RulesJobs, MaxTime)
    \/ \E results \in RuleBundles : detect_threats(results, FALSE)
    \/ play_beeps
    \/ send_email("sent")

SpecRules == Init /\ [][NextRules]_vars

(* MobileIPWebcamGUI: results with and without a weapon, with a crowd below *)
(* or above its two limits and with a face at or above the confidence       *)
(* limit; calls 5 s or just over 10 s apart                                 *)

MobileBundles ==
    {Bundle(w, People(n), f) : w \in {<<>>, <<Det(90)>>}, n \in {10, 11, 16},
                               f \in {<<>>, <<Face("disgust", 70)>>, <<Face("disgust", 71)>>}}
MobileDeltas == {50, 101}

NextMobile ==
    \E results \in MobileBundles, dt \in MobileDeltas, enabled \in BOOLEAN, sound \in BOOLEAN :
        check_threats(results, dt, enabled, sound, MobileTime)

SpecMobile == Init /\ [][NextMobile]_vars

(* ViolenceDetector: any sequence of clips whose top class is at or just   *)
(* below violence_threshold, with or without a violence keyword            *)

ViolenceProbs == {64, 65}

NextViolence ==
    \E label \in ViolenceLabels, prob \in ViolenceProbs : detect(label, prob, MaxClips)

SpecViolence == Init /\ [][NextViolence]_vars


----------------------------------------------------------------------------
(* Properties *)

Collecting == cycles' = cycles + 1

Submitting == jobs_submitted' = jobs_submitted + 1

(* C1: at no point are two inference jobs outstanding; video_loop submits a *)
(* job only when inference_future is None (at the start of the iteration,   *)
(* or after it has cleared it in the same iteration), and it clears         *)
(* inference_future only in an iteration that collected the finished job.   *)
C1_AtMostOneInFlight ==
    [][ /\ Cardinality(executor') <= 1
        /\ (inference_future' = None) <=> (executor' = {})
        /\ Submitting => (inference_future = None \/ (FutureDone /\ Collecting))
        /\ (inference_future # None /\ inference_future' # inference_future)
              => (FutureDone /\ Collecting)
      ]_vars

(* a second job is in flight after the first was collected *)
C1_Witness ==
    /\ jobs_submitted >= 2
    /\ cycles >= 1
    /\ inference_future # None
    /\ ~FutureDone

Dets(s) == [i \in 1..Len(s) |-> s[i].detection]

Ats(s) == [i \in 1..Len(s) |-> s[i].at]

StillFresh(k) == SelectSeq(merged[k], LAMBDA m : now - m.at < box_lifetime)

(* C10: while video_loop runs, the detections drawn on the frame of time    *)
(* now are exactly those merged at a time T with now - T < box_lifetime:    *)
(* each of them is drawn, and none merged at T with now - T >= box_lifetime *)
(* is.                                                                      *)
C10_CacheExpiry ==
    video_thread = "running" =>
        \A k \in Kinds :
            /\ display_results[k] = Dets(StillFresh(k))
            /\ persistent_detections[k] = Dets(StillFresh(k))
            /\ detection_timestamps[k] = Ats(StillFresh(k))

(* a frame drawn exactly box_lifetime after a merge no longer shows the box, *)
(* while a younger detection is still drawn                                  *)
C10_Witness ==
    /\ video_thread = "running"
    /\ \E k \in Kinds : \E i \in 1..Len(merged[k]) :
          /\ now - merged[k][i].at = box_lifetime
          /\ Len(display_results[k]) > 0
          /\ Len(display_results[k]) < Len(merged[k])

----------------------------------------------------------------------------
(* What a collected cycle saw and did *)

WeaponSeen(results) == Len(results.weapons) > 0

Called(op, c) == <<op, c>> \in Range(calls)

Failed(op, c) ==
    \E i \in 1..(Len(calls) - 1) : calls[i] = <<op, c>> /\ calls[i + 1] = <<"raise", c>>

SideEffects == {"log_detection", "play_beep_sound", "mark_beep_played", "send_email_alert"}

(* the count line 1213 must produce from the state before the cycle *)
CountDue(t) ==
    (IF t - weapon_confirm.last_time > confirm_window THEN 0 ELSE weapon_confirm.count) + 1

(* the signal of category c that a result must raise at time t *)
SignalDue(c, results, t) ==
    CASE c = "weapon"   -> WeaponSeen(results) /\ CountDue(t) >= confirm_count
      [] c = "crowd"    -> Len(results.people) > crowd_limit
      [] c = "behavior" -> \E i \in 1..Len(results.faces) :
                               /\ results.faces[i].dominant \in Suspicious
                               /\ results.faces[i].confidence > suspicious_conf

(* C2: on a cycle whose bundle contains a weapon the count is reset to 0    *)
(* if more than confirm_window has passed since the last weapon cycle, then *)
(* incremented, and last_time becomes now; the weapon signal is confirmed   *)
(* on that cycle iff the count is then >= 2.  Weapon cycles at T, T + 0.5 s *)
(* and T + 5.0 s give count 1 and no signal, count 2 and a signal, count 1  *)
(* and no signal.                                                           *)
C2_Example ==
    (/\ Len(history) >= 3
     /\ \A i \in 1..3 : WeaponSeen(history[i].results)
     /\ history[2].t - history[1].t = 5
     /\ history[3].t - history[1].t = 50)
    => /\ <<history[1].count, history[2].count, history[3].count>> = <<1, 2, 1>>
       /\ "weapon" \notin history[1].signals
       /\ "weapon" \in history[2].signals
       /\ "weapon" \notin history[3].signals

C2_WeaponConfirmation ==
    [][ (Collecting /\ WeaponSeen(Job(inference_future).result)) =>
            LET obs == history'[Len(history')]
            IN  /\ obs.count = CountDue(now')
                /\ weapon_confirm'.last_time = now'
                /\ ("weapon" \in obs.signals) <=> (CountDue(now') >= confirm_count)
                /\ weapon_confirm'.count =
                       IF "weapon" \in obs.dispatched THEN 0 ELSE CountDue(now')
                /\ C2_Example'
      ]_vars

(* the three weapon cycles of the example have been collected *)
C2_Witness ==
    /\ Len(history) >= 3
    /\ \A i \in 1..3 : WeaponSeen(history[i].results)
    /\ history[2].t - history[1].t = 5
    /\ history[3].t - history[1].t = 50
    /\ "weapon" \in history[2].signals
    /\ "weapon" \notin history[3].signals
    /\ weapon_confirm.count = 1

(* The stream of the end-to-end scenario: a weapon on every cycle, 0.2 s apart *)
IsStream(h) ==
    \A i \in 1..Len(h) :
        /\ WeaponSeen(h[i].results)
        /\ i > 1 => h[i].t - h[i - 1].t = 2

SignalCycles(h) == {i \in 1..Len(h) : "weapon" \in h[i].signals}

DispatchCycles(h) == {i \in 1..Len(h) : "weapon" \in h[i].dispatched}

NoRaise(h) == \A i \in 1..Len(h) : ~h[i].raised

(* C4 as stated: in the first 6 cycles of the stream, with no call raising, *)
(* the weapon signal is emitted at the 2nd cycle and at no other.           *)
C4_OneSignalOnly ==
    (IsStream(history) /\ Len(history) <= 6 /\ NoRaise(history))
        => SignalCycles(history) = {2} \cap (1..Len(history))

(* C4: in the first 6 cycles of the stream the weapon signal is never       *)
(* emitted at the 1st cycle and always at the 2nd; at most one alert is     *)
(* dispatched; and when the alert of the 2nd cycle is dispatched, the count *)
(* restarts, no signal is emitted at the 3rd cycle, signals are emitted     *)
(* again at the 4th, 5th and 6th, and the cooldown drops every one of them. *)
C4_StreamOfWeapons ==
    (IsStream(history) /\ Len(history) <= 6)
        => /\ 1 \notin SignalCycles(history)
           /\ Len(history) >= 2 => 2 \in SignalCycles(history)
           /\ Cardinality(DispatchCycles(history)) <= 1
           /\ 2 \in DispatchCycles(history) =>
                  /\ SignalCycles(history) = {2} \cup (4..Len(history))
                  /\ DispatchCycles(history) = {2}

(* all 6 cycles of the stream collected, the alert dispatched at the 2nd *)
C4_Witness ==
    /\ IsStream(history)
    /\ Len(history) = 6
    /\ SignalCycles(history) = {2, 4, 5, 6}
    /\ DispatchCycles(history) = {2}

(* The confirmed signals of category c, in the order of their cycles *)
SignalsOf(c) == SelectSeq(history, LAMBDA obs : c \in obs.signals)

WithinCooldown(c, t) == last_alert_time[c] # NoTime /\ t - last_alert_time[c] < alert_cooldown

BeyondCooldown(c, t) == last_alert_time[c] = NoTime \/ t - last_alert_time[c] > alert_cooldown

(* the first three signals of c at T, T + 1.0 s and T + 2.1 s *)
ThreeSignals(c) ==
    /\ Len(SignalsOf(c)) >= 3
    /\ SignalsOf(c)[2].t - SignalsOf(c)[1].t = 10
    /\ SignalsOf(c)[3].t - SignalsOf(c)[1].t = 21
    /\ \A i \in 1..3 : ~SignalsOf(c)[i].raised

C3_Example ==
    \A c \in Categories :
        ThreeSignals(c) => /\ c \in SignalsOf(c)[1].dispatched
                           /\ c \notin SignalsOf(c)[2].dispatched
                           /\ c \in SignalsOf(c)[3].dispatched

(* C3: on every collected cycle and for every category, the signal the      *)
(* result calls for is the signal evaluated; a signal arriving less than    *)
(* alert_cooldown after the last alert of its category causes no            *)
(* log_detection, sound, mark or e-mail call and leaves last_alert_time     *)
(* alone; a signal arriving more than alert_cooldown after it (or the first *)
(* one) calls log_detection and, nothing raising, all the side effects, and *)
(* sets last_alert_time to now.  Signals at T, T + 1.0 s and T + 2.1 s      *)
(* dispatch the first and the third only.                                   *)
C3_CooldownSuppression ==
    [][ Collecting =>
            LET results == Job(inference_future).result
                t == now'
                obs == history'[Len(history')]
            IN  /\ \A c \in Categories :
                      /\ c \in obs.signals => SignalDue(c, results, t)
                      /\ (SignalDue(c, results, t) /\ ~obs.raised) => c \in obs.signals
                      /\ (c \in obs.signals /\ WithinCooldown(c, t)) =>
                             /\ \A op \in SideEffects : <<op, c>> \notin Range(calls')
                             /\ c \notin obs.dispatched
                             /\ last_alert_time'[c] = last_alert_time[c]
                      /\ (c \in obs.signals /\ BeyondCooldown(c, t)) =>
                             /\ <<"log_detection", c>> \in Range(calls')
                             /\ ~obs.raised =>
                                    /\ \A op \in SideEffects : <<op, c>> \in Range(calls')
                                    /\ c \in obs.dispatched
                                    /\ last_alert_time'[c] = t
                /\ C3_Example'
      ]_vars

(* three signals of one category at T, T + 1.0 s, T + 2.1 s: first and third dispatched *)
C3_Witness ==
    \E c \in Categories :
        /\ ThreeSignals(c)
        /\ c \in SignalsOf(c)[1].dispatched
        /\ c \notin SignalsOf(c)[2].dispatched
        /\ c \in SignalsOf(c)[3].dispatched
        /\ last_alert_time[c] = SignalsOf(c)[3].t

(* C9 as stated: a signal is suppressed exactly when                        *)
(* now - last_alert_time < alert_cooldown, so that a signal arriving        *)
(* exactly alert_cooldown after the last alert is dispatched.               *)
C9_SuppressedBelowCooldown ==
    [][ Collecting =>
            \A c \in history'[Len(history')].signals :
                (<<"log_detection", c>> \notin Range(calls')) <=> WithinCooldown(c, now')
      ]_vars

(* C9: a signal is suppressed exactly when an alert of its category was     *)
(* raised before and now - last_alert_time <= alert_cooldown; a signal      *)
(* arriving exactly alert_cooldown after the last alert is suppressed, and  *)
(* only one arriving strictly later is dispatched.                          *)
C9_SuppressedUpToCooldown ==
    [][ Collecting =>
            \A c \in history'[Len(history')].signals :
                (<<"log_detection", c>> \notin Range(calls')) <=>
                    (last_alert_time[c] # NoTime /\ now' - last_alert_time[c] <= alert_cooldown)
      ]_vars

(* a signal arrived exactly alert_cooldown after the last alert and was dropped *)
C9_Witness ==
    /\ history # <<>>
    /\ \E c \in history[Len(history)].signals :
           /\ history[Len(history)].t - last_alert_time[c] = alert_cooldown
           /\ c \notin history[Len(history)].dispatched
           /\ ~Called("log_detection", c)

(* C5: when log_detection raises while an alert of a category is being     *)
(* dispatched, the failure is caught inside the handler: nothing reaches    *)
(* the capture loop, the sound of the category is played and its e-mail is  *)
(* attempted.                                                               *)
C5_PersistenceFailureCaught ==
    \A c \in Categories :
        Failed("log_detection", c) =>
            /\ ~raised
            /\ Called("play_beep_sound", c)
            /\ Called("send_email_alert", c)

(* the e-mail thread of detection record id finishing with the given outcome *)
EmailEnds(id, outcome) ==
    LET session == [id |-> id, outcome |-> outcome]
    IN  session \in smtp_sessions' /\ session \notin smtp_sessions

(* C6: when the SMTP login of an alert's e-mail fails with an               *)
(* authentication error, the alert has called log_detection, started the    *)
(* sound and called mark_beep_played (the record says so), the cooldown of  *)
(* the category is set to the time of the alert, the authentication         *)
(* diagnostic is logged, and the failure changes nothing in the capture     *)
(* loop: an exception leaves the handler only when a database call failed.  *)
C6_AuthFailureTolerated ==
    [][ \A id \in 1..Len(detections) :
            EmailEnds(id, "auth_error") =>
                LET c == detections[id].detection_type
                IN  /\ \A op \in SideEffects : Called(op, c)
                    /\ detections'[id].beep_played
                    /\ last_alert_time'[c] = detections[id].timestamp
                    /\ "smtp_authentication_failed" \in log_text'
                    /\ "email_sending_failed" \notin log_text' \ log_text
                    /\ UNCHANGED <<is_monitoring, video_thread, frame_count,
                                   inference_future, raised, calls>>
                    /\ raised => \E c2 \in Categories, op \in SideEffects : Failed(op, c2)
      ]_vars

(* an alert whose e-mail ended in an authentication error, fully dispatched otherwise *)
C6_Witness ==
    \E session \in smtp_sessions :
        /\ session.outcome = "auth_error"
        /\ detections[session.id].beep_played
        /\ "smtp_authentication_failed" \in log_text
        /\ last_alert_time[detections[session.id].detection_type]
               = detections[session.id].timestamp
        /\ video_thread = "running"

(* C7: the email_sent flag of a detection record is set only when the       *)
(* e-mail of that record was sent successfully.                             *)
C7_EmailSentOnlyOnSuccess ==
    \A id \in 1..Len(detections) :
        detections[id].email_sent => [id |-> id, outcome |-> "sent"] \in smtp_sessions

(* C8: last_alert_time of a category is set before any side effect of the   *)
(* alert starts: every log_detection call of a cycle is preceded by the     *)
(* assignment of last_alert_time for its category.                          *)
C8_SetBeforeDispatch ==
    \A i \in 1..Len(calls) :
        calls[i][1] = "log_detection" =>
            \E j \in 1..(i - 1) : calls[j] = <<"last_alert_time", calls[i][2]>>

C12_OnlyReadFailureOrStopEnds ==
    (video_thread = "exited" \/ orphan.status = "exited")
        => exit_cause \in {"stop", "read_failure"}

(* C13: the result of a job that was outstanding when stop_monitoring was   *)
(* called is never collected: no iteration of a loop thread, of the loop    *)
(* started later included, merges or evaluates it.                          *)
C13_StaleResultDiscarded ==
    [][ Collecting => ~Job(inference_future).stale ]_vars

(* C14: the loop thread that was running when monitoring was stopped reads  *)
(* at most one further frame, also when monitoring is started again right   *)
(* after the stop.                                                          *)
C14_StoppedLoopExits ==
    orphan.reads <= 1

(* C15: the GUI thread opens, releases or reads the camera handle only      *)
(* while no loop thread is in its loop.                                     *)
C15_CameraOwnedByCaptureThread ==
    cap_access.by = "gui" => ~cap_access.live

(* C17: a job's result is collected at most once and the jobs are collected *)
(* in the order of their submission, none skipped: the job collected is     *)
(* done, is the oldest one not collected yet, leaves the executor for good  *)
(* (job ids are never reused), and its bundle, and nothing else, is merged  *)
(* into the cache and evaluated on that step.                               *)
C17_InOrder ==
    /\ \A i \in 1..Len(history) : \A j \in 1..Len(history) :
           i < j => history[i].job < history[j].job
    /\ \A o \in executor : \A i \in 1..Len(history) : history[i].job < o.id
    /\ \A o \in executor : o.id <= jobs_submitted
    /\ Len(history) = cycles

C17_CollectedOnceInOrder ==
    [][ /\ Collecting =>
            LET j == Job(inference_future)
            IN  /\ j.done
                /\ j \notin executor'
                /\ \A o \in executor : j.id <= o.id
                /\ history' = Append(history, history'[Len(history')])
                /\ history'[Len(history')].job = j.id
                /\ history'[Len(history')].results = j.result
                /\ merged' = [k \in Kinds |-> merged[k] \o Tag(j.result[k], now')]
        /\ ~Collecting => history' = history /\ merged' \in {merged, EmptyCache}
        /\ C17_InOrder'
      ]_vars

(* two jobs collected in turn, the second by the loop started after a stop *)
C17_Witness ==
    /\ Len(history) >= 2
    /\ history[1].job = 1
    /\ history[2].job = 2
    /\ orphan.status # "none"
    /\ merged.people # <<>>

(* C16: the frame handed to an e-mail thread stays as it was handed over    *)
(* for as long as the thread runs: no thread draws on it.                   *)
C16_EvidenceFrameUntouched ==
    \A e \in evidence : e.frame = "as_handed"

(* C18: the beep_played flag of a detection record is not set while the     *)
(* sound thread of that alert is still running.                             *)
C18_BeepMarkedAfterSound ==
    \A b \in beep_threads : ~detections[b.id].beep_played

(* C19: every cycle that dispatches a weapon alert contains a weapon and    *)
(* follows an earlier cycle with a weapon, the last one before it, by no    *)
(* more than confirm_window, with no weapon alert dispatched from that      *)
(* cycle on; and log_detection is called for a weapon only on a cycle whose *)
(* count has reached confirm_count.                                         *)
C19_Preceded(i) ==
    \E j \in 1..(i - 1) :
        /\ WeaponSeen(history[j].results)
        /\ \A k \in (j + 1)..(i - 1) : ~WeaponSeen(history[k].results)
        /\ history[i].t - history[j].t <= confirm_window
        /\ \A k \in j..(i - 1) : "weapon" \notin history[k].dispatched

C19_TwoCyclesPerAlert ==
    \A i \in 1..Len(history) :
        ((Called("log_detection", "weapon") /\ i = Len(history))
             \/ "weapon" \in history[i].dispatched)
        => /\ WeaponSeen(history[i].results)
           /\ history[i].count >= confirm_count
           /\ C19_Preceded(i)

(* a weapon alert dispatched twice, each time on the second of two weapon cycles *)
C19_Witness ==
    \E i \in 1..Len(history) : \E j \in 1..Len(history) :
        /\ i < j
        /\ "weapon" \in history[i].dispatched
        /\ "weapon" \in history[j].dispatched
        /\ history[j].count = confirm_count
        /\ weapon_confirm.count = 0

(* C20: a collected cycle whose bundle has no weapon leaves weapon_confirm  *)
(* as it was, whatever else the bundle holds, and so does every step that   *)
(* collects nothing; on a cycle with a weapon the count goes up by one      *)
(* unless the gap since the last weapon cycle exceeds confirm_window or a   *)
(* weapon alert is dispatched on that cycle.                                *)
C20_ConfirmationFrame ==
    [][ /\ ~Collecting => weapon_confirm' = weapon_confirm
        /\ Collecting =>
            LET results == Job(inference_future).result
                obs == history'[Len(history')]
            IN  /\ ~WeaponSeen(results) => weapon_confirm' = weapon_confirm
                /\ (WeaponSeen(results)
                      /\ weapon_confirm'.count # weapon_confirm.count + 1)
                   => \/ now' - weapon_confirm.last_time > confirm_window
                      \/ "weapon" \in obs.dispatched
      ]_vars

(* a cycle without a weapon between two weapon cycles: the count carried over it *)
C20_Witness ==
    /\ Len(history) >= 3
    /\ WeaponSeen(history[1].results)
    /\ ~WeaponSeen(history[2].results)
    /\ history[2].signals # {}
    /\ WeaponSeen(history[3].results)
    /\ history[3].t - history[1].t = confirm_window
    /\ history[3].count = 2

----------------------------------------------------------------------------
(* Threshold tests of has_threats and handle_threat_detection *)

Weaponless(results) == Len(results.weapons) = 0

FaceAt(results, S) ==
    \E i \in 1..Len(results.faces) :
        /\ results.faces[i].dominant \in Suspicious
        /\ results.faces[i].confidence \in S

(* C21 as stated: a suspicious face whose confidence is equal to the        *)
(* threshold or higher gives a behaviour signal in the cycle that collects  *)
(* it.                                                                      *)
C21_ThresholdInclusive ==
    \A i \in 1..Len(history) :
        FaceAt(history[i].results, suspicious_conf..100)
            => "behavior" \in history[i].signals

(* C21: the behaviour threshold is exclusive: a cycle gives a behaviour     *)
(* signal exactly when its result holds a face whose dominant emotion is    *)
(* angry or fear with a confidence strictly above the threshold; a          *)
(* confidence equal to the threshold gives none.                            *)
C21_ThresholdExclusive ==
    \A i \in 1..Len(history) :
        ("behavior" \in history[i].signals)
            <=> FaceAt(history[i].results, (suspicious_conf + 1)..100)

(* a face at the threshold passed has_threats and gave no signal *)
C21_Witness ==
    \E i \in 1..Len(history) :
        /\ FaceAt(history[i].results, {suspicious_conf})
        /\ has_threats(history[i].results)
        /\ history[i].signals = {}

(* C22: a cycle gives a crowd signal exactly when its result holds more     *)
(* than 5 people, on that very cycle and without any confirmation count;    *)
(* 5 people or fewer give none; and has_threats accepts the people of a     *)
(* result exactly when handle_threat_detection gives the crowd signal.      *)
C22_CrowdBoundary ==
    \A i \in 1..Len(history) :
        LET obs == history[i]
            crowd == Bundle(<<>>, obs.results.people, <<>>)
        IN  (Weaponless(obs.results) /\ ~obs.raised) =>
                /\ ("crowd" \in obs.signals) <=> (Len(obs.results.people) > crowd_limit)
                /\ has_threats(crowd) <=> (Len(obs.results.people) > crowd_limit)
                /\ ("crowd" \in obs.signals /\ i = 1) => "crowd" \in obs.dispatched
                /\ obs.count = 0

(* the first cycle that reports six people raised the crowd alert *)
C22_Witness ==
    /\ Len(history) >= 1
    /\ Len(history[1].results.people) = crowd_limit + 1
    /\ "crowd" \in history[1].dispatched
    /\ \E r \in Range(detections) : r.detection_type = "crowd"

(* C28: for every result without weapons that has_threats accepts,          *)
(* handle_threat_detection called with no alert raised before dispatches at *)
(* least one alert.                                                         *)
C28_PredicatesAgree ==
    (Len(history) >= 1 /\ Weaponless(history[1].results)
                       /\ has_threats(history[1].results))
        => history[1].dispatched # {}

----------------------------------------------------------------------------
(* The expiry sweep of video_loop (lines 1076-1090) on its own: what it     *)
(* leaves of a cache pd with timestamps ts at time t                        *)

Sweep(pd, ts, t) ==
    [detections |-> [k \in Kinds |-> Keep(pd[k], valid_indices(ts[k], t))],
     timestamps |-> [k \in Kinds |-> Keep(ts[k], valid_indices(ts[k], t))]]

(* the cache is what a sweep at time now leaves of it *)
C23_SweptOnce ==
    LET again == Sweep(persistent_detections, detection_timestamps, now)
    IN  /\ again.detections = persistent_detections
        /\ again.timestamps = detection_timestamps

(* C23: the sweep is idempotent.  After every iteration of video_loop that  *)
(* reached the sweep, a second sweep at the same time leaves                *)
(* persistent_detections and detection_timestamps as they are; and an       *)
(* iteration that reads its frame at the same time and merges nothing       *)
(* changes neither.                                                         *)
C23_PurgeIdempotent ==
    [][ (video_thread = "running" /\ frame_count' # frame_count) =>
            /\ C23_SweptOnce'
            /\ (now' = now /\ cycles' = cycles)
                  => /\ persistent_detections' = persistent_detections
                     /\ detection_timestamps' = detection_timestamps
      ]_vars

(* a sweep removed the older of two entries and kept the younger one *)
C23_Witness ==
    /\ video_thread = "running"
    /\ \E k \in Kinds :
          /\ Len(merged[k]) >= 2
          /\ Len(persistent_detections[k]) >= 1
          /\ Len(persistent_detections[k]) < Len(merged[k])

(* C24: while video_loop runs, every entry of the cache was merged less     *)
(* than box_lifetime before the time of the last frame processed, so the    *)
(* cache holds no more than the detections of the cycles collected within   *)
(* the last box_lifetime: an entry merged at T is gone after the first      *)
(* frame processed at T + box_lifetime or later.                            *)
C24_CacheBounded ==
    [][ (video_thread = "running" /\ frame_count' # frame_count) =>
            \A k \in Kinds :
                /\ \A i \in 1..Len(detection_timestamps'[k]) :
                      /\ detection_timestamps'[k][i] <= now'
                      /\ now' - detection_timestamps'[k][i] < box_lifetime
                /\ Len(persistent_detections'[k]) = Len(detection_timestamps'[k])
                /\ Len(persistent_detections'[k]) <=
                      Len(SelectSeq(merged'[k], LAMBDA m : now' - m.at < box_lifetime))
      ]_vars

(* the cache emptied: entries were merged and the frame processed           *)
(* box_lifetime later or more removed the last of them                      *)
C24_Witness ==
    /\ video_thread = "running"
    /\ \E k \in Kinds :
          /\ Len(merged[k]) >= 1
          /\ \A i \in 1..Len(merged[k]) : now - merged[k][i].at >= box_lifetime
          /\ Len(persistent_detections[k]) = 0

----------------------------------------------------------------------------
(* What video_loop does on a detection tick *)

Tick == video_thread = "running" /\ frame_count = 0 /\ frame_count' # frame_count

----------------------------------------------------------------------------
(* Loop threads and the monitoring flag *)

(* C26: at most one video_loop thread is in its loop at any time, whatever  *)
(* the order of the start_monitoring and stop_monitoring calls of the GUI   *)
(* thread and the steps of the capture thread, so that the cache,           *)
(* confirmation and cooldown state have one writer.                         *)
C26_SingleLoopThread ==
    ~(video_thread = "running" /\ orphan.status = "running")

(* C27: is_monitoring implies that a video_loop thread is started or        *)
(* running: a loop that ended on a read failure or on an exception has left *)
(* is_monitoring false.                                                     *)
C27_MonitoringMeansLoopRuns ==
    /\ is_monitoring => video_thread \in {"started", "running"}
    /\ (video_thread = "exited" /\ exit_cause \in {"read_failure", "exception"})
          => ~is_monitoring

----------------------------------------------------------------------------
(* MobileIPWebcamGUI.check_threats *)

ThreatTypes(c) ==
    CASE c = "weapon"  -> {"WEAPON"}
      [] c = "crowd"   -> {"OVERCROWDING", "CROWD_MEDIUM"}
      [] c = "emotion" -> {"SUSPICIOUS_BEHAVIOR"}

(* C29: every category whose last_alert_time was written by a call of      *)
(* check_threats had its alert issued by that call: its message logged,    *)
(* its sound played when sound is available, its e-mail sent when e-mail   *)
(* is enabled; also when several categories trigger in one call.           *)
C29_UpdatedMeansAlerted ==
    \A c \in mobile_gui.updated :
        /\ mobile_gui.logged \cap ThreatTypes(c) # {}
        /\ mobile_gui.sound =>
              \E s \in mobile_gui.sounds : s[1] \in ThreatTypes(c)
        /\ mobile_gui.enabled => mobile_gui.emails \cap ThreatTypes(c) # {}

----------------------------------------------------------------------------
(* ViolenceDetector.detect *)

LastClips(n) ==
    LET p == violence_detector.predictions
    IN  IF Len(p) < n THEN <<>> ELSE SubSeq(p, Len(p) - n + 1, Len(p))

(* C30: detect returns is_violence true only when the frame buffer holds   *)
(* buffer_size frames and each of the last smoothing_window clip-level     *)
(* predictions, the current one included, was violent; so after a          *)
(* non-violent clip it returns false until smoothing_window violent clips  *)
(* in a row have followed.                                                 *)
C30_SmoothedViolence ==
    violence_detector.result.is_violence =>
        /\ violence_detector.frame_buffer = buffer_size
        /\ violence_detector.result.buffer_ready
        /\ Len(violence_detector.predictions) >= smoothing_window
        /\ LastClips(smoothing_window) = [i \in 1..smoothing_window |-> TRUE]
        /\ violence_detector.last_prediction.is_violence

(* a non-violent clip was followed by three violent ones and the last      *)
(* detect returned is_violence                                             *)
C30_Witness ==
    /\ violence_detector.result.is_violence
    /\ Len(violence_detector.predictions) = smoothing_window + 2
    /\ ~violence_detector.predictions[2]
    /\ violence_detector.predictions[1]

====
